---- MODULE Spec2Model ----
(***************************************************************************)
(* NumberField (src/Field/Number.js): a numeric field with an inclusive    *)
(* minimum, an exclusive maximum, integer coercion, stepping with optional *)
(* rotation, validation, random sampling and a value description.          *)
(*                                                                         *)
(* Numbers are fixed-point: the JavaScript number x is the integer         *)
(* x * Scale, so that fractional values (and parseInt's truncation of      *)
(* them) exist in the model.  JavaScript values are records                *)
(* [t |-> type, n |-> payload].                                            *)
(***************************************************************************)
EXTENDS Integers, Sequences, FiniteSets, TLC

\* Sub-units per unit: 1 is represented as Scale, 1/Scale as 1.
Scale == 2

\* stepUp and stepDown are followed while the stored value stays within
\* -Below .. limit units, limit being Above or AboveConstructed.
Below == 2

Above == 4

AboveConstructed == 11

\* stepValue's default for maxTries.
DefaultMaxTries == 100

-----------------------------------------------------------------------------
(* JavaScript values                                                       *)

N(i) == [t |-> "number", n |-> i]
Null == [t |-> "null", n |-> 0]
NaN == [t |-> "NaN", n |-> 0]
Undefined == [t |-> "undefined", n |-> 0]

\* The result `true` of a validation; a failure is its key.
Valid == "true"

IsNumber(x) == x.t = "number"

\* x || d for a number-or-nullish x: 0, NaN, null and undefined are falsy.
OrDefault(x, d) == IF IsNumber(x) /\ x.n # 0 THEN x ELSE d

\* ToNumber: null is 0, undefined is NaN.
ToNumber(x) == IF x.t = "null" THEN N(0) ELSE IF x.t = "number" THEN x ELSE NaN

\* x + s for a number s.
Plus(x, s) == IF IsNumber(ToNumber(x)) THEN N(ToNumber(x).n + s) ELSE NaN

\* x < y, x > y, x >= y: false as soon as one side is NaN.
Less(x, y) ==
  IsNumber(ToNumber(x)) /\ IsNumber(ToNumber(y)) /\ ToNumber(x).n < ToNumber(y).n

Greater(x, y) == Less(y, x)

GreaterEq(x, y) ==
  IsNumber(ToNumber(x)) /\ IsNumber(ToNumber(y)) /\ ToNumber(x).n >= ToNumber(y).n

\* x !== y: no conversion; NaN differs from everything, itself included.
StrictNotEqual(x, y) == x.t = "NaN" \/ x # y

\* Truncation toward zero of a fixed-point number.
Trunc(i) == IF i >= 0 THEN (i \div Scale) * Scale ELSE -(((-i) \div Scale) * Scale)

\* parseInt / parseFloat of a number, null or NaN.
parseInt(x) == IF IsNumber(x) THEN N(Trunc(x.n)) ELSE NaN

parseFloat(x) == IF IsNumber(x) THEN x ELSE NaN

-----------------------------------------------------------------------------
(* The field                                                               *)

VARIABLES
  _value,                  \* Field: the stored value
  _valid,                  \* Field: result of the last revalidation
  _validateValueCallback,  \* Field: custom validation rule
  _integer, _step, _min, _max, _rotate, _describeValueCallback,
  options,                 \* history: <<options bag>> while the configuration
                           \* is the constructed one, <<>> after a setter
  last                     \* history: the last call and what it returned

vars == <<_value, _valid, _validateValueCallback, _integer, _step, _min, _max,
          _rotate, _describeValueCallback, options, last>>

fields == <<_value, _valid, _validateValueCallback, _integer, _step, _min, _max,
            _rotate, _describeValueCallback>>

\* `this`
This ==
  [_value |-> _value, _valid |-> _valid,
   _validateValueCallback |-> _validateValueCallback,
   _integer |-> _integer, _step |-> _step, _min |-> _min, _max |-> _max,
   _rotate |-> _rotate, _describeValueCallback |-> _describeValueCallback]

isInteger(self) == self._integer
getStep(self) == self._step
getMin(self) == self._min
getMax(self) == self._max
isRotate(self) == self._rotate
getValue(self) == self._value
isValid(self) == self._valid

\* Field.filterValue: no further filtering.
FieldFilterValue(self, rawValue) == rawValue

\* Field.validateValue: the custom rule, true without one.
FieldValidateValue(self, value) ==
  CASE self._validateValueCallback = "null" -> Valid
    [] self._validateValueCallback = "rejectAll" -> "invalid"
    [] self._validateValueCallback = "wholeOnly" ->
         IF value.n % Scale = 0 THEN Valid ELSE "invalid"

filterValue(self, rawValue) ==
  FieldFilterValue(self,
    IF isInteger(self) THEN parseInt(rawValue) ELSE parseFloat(rawValue))

\* validateValue with the maximum taken as inclusive.
validateValueInclusiveMax(self, rawValue) ==
  LET value == filterValue(self, rawValue) IN
  IF ~IsNumber(value) THEN "numberNotNumeric"
  ELSE IF self._min # Null /\ Less(value, self._min) THEN "numberTooSmall"
  ELSE IF self._max # Null /\ Greater(value, self._max) THEN "numberTooLarge"
  ELSE FieldValidateValue(self, value)

validateValue(self, rawValue) ==
  LET value == filterValue(self, rawValue) IN
  IF ~IsNumber(value) THEN "numberNotNumeric"
  ELSE IF self._min # Null /\ Less(value, self._min) THEN "numberTooSmall"
  ELSE IF self._max # Null /\ GreaterEq(value, self._max) THEN "numberTooLarge"
  ELSE FieldValidateValue(self, value)

\* The loop's variables before its first condition: exit is set once the
\* condition has been found false, calls counts the executions of the body
\* (each validates one candidate).
StepStart(self) ==
  [value |-> getValue(self), tries |-> 0, valueFound |-> FALSE, exit |-> FALSE,
   calls |-> 0]

\* stepValueIteration with the tries compared by <= (one try too many).
stepValueIterationOneMore(self, step, maxTries, s) ==
  IF s.exit THEN s
  ELSE IF s.valueFound THEN [s EXCEPT !.exit = TRUE]
  ELSE IF ~(/\ s.tries <= maxTries
            /\ (self._rotate \/ step > 0 \/ StrictNotEqual(s.value, self._min))
            /\ (self._rotate \/ step < 0 \/ StrictNotEqual(s.value, self._max)))
  THEN [s EXCEPT !.tries = @ + 1, !.exit = TRUE]
  ELSE LET added == Plus(s.value, step)
           value == IF self._rotate /\ Greater(added, self._max) THEN self._min
                    ELSE IF self._rotate /\ Less(added, self._min)
                         THEN Plus(self._max, step)
                    ELSE added
       IN [value |-> value, tries |-> s.tries + 1,
           valueFound |-> (validateValue(self, value) = Valid),
           exit |-> FALSE, calls |-> s.calls + 1]

\* stepValueIteration wrapping downward to the maximum itself, the step not
\* added.
stepValueIterationWrapToMax(self, step, maxTries, s) ==
  IF s.exit THEN s
  ELSE IF s.valueFound THEN [s EXCEPT !.exit = TRUE]
  ELSE IF ~(/\ s.tries < maxTries
            /\ (self._rotate \/ step > 0 \/ StrictNotEqual(s.value, self._min))
            /\ (self._rotate \/ step < 0 \/ StrictNotEqual(s.value, self._max)))
  THEN [s EXCEPT !.tries = @ + 1, !.exit = TRUE]
  ELSE LET added == Plus(s.value, step)
           value == IF self._rotate /\ Greater(added, self._max) THEN self._min
                    ELSE IF self._rotate /\ Less(added, self._min)
                         THEN self._max
                    ELSE added
       IN [value |-> value, tries |-> s.tries + 1,
           valueFound |-> (validateValue(self, value) = Valid),
           exit |-> FALSE, calls |-> s.calls + 1]

\* One evaluation of the while condition and, when it holds, of the body.
stepValueIteration(self, step, maxTries, s) ==
  IF s.exit THEN s
  ELSE IF s.valueFound THEN [s EXCEPT !.exit = TRUE]
  ELSE IF ~(/\ s.tries < maxTries
            /\ (self._rotate \/ step > 0 \/ StrictNotEqual(s.value, self._min))
            /\ (self._rotate \/ step < 0 \/ StrictNotEqual(s.value, self._max)))
  THEN [s EXCEPT !.tries = @ + 1, !.exit = TRUE]
  ELSE LET added == Plus(s.value, step)
           value == IF self._rotate /\ Greater(added, self._max) THEN self._min
                    ELSE IF self._rotate /\ Less(added, self._min)
                         THEN Plus(self._max, step)
                    ELSE added
       IN [value |-> value, tries |-> s.tries + 1,
           valueFound |-> (validateValue(self, value) = Valid),
           exit |-> FALSE, calls |-> s.calls + 1]

\* n evaluations of the while condition, one after the other.
RECURSIVE stepValueWhile(_, _, _, _, _)
stepValueWhile(self, step, maxTries, s, n) ==
  IF n = 0 THEN s
  ELSE IF n = 1 THEN stepValueIteration(self, step, maxTries, s)
  ELSE LET half == stepValueWhile(self, step, maxTries, s, n \div 2)
       IN IF half.exit THEN half
          ELSE stepValueWhile(self, step, maxTries, half, n - (n \div 2))

\* The loop leaves after at most maxTries + 1 evaluations of its condition.
\* ret: the returned value; value: the running value at exit; calls: the
\* number of candidates validated.
stepValue(self, step, maxTries) ==
  LET s == stepValueWhile(self, step, maxTries, StepStart(self), maxTries + 1)
  IN [ret |-> IF s.valueFound THEN s.value ELSE Null,
      value |-> s.value, calls |-> s.calls]

\* getValueDescription without the check of isValid().
getValueDescriptionUnchecked(self) ==
  IF self._describeValueCallback = "null" THEN Null ELSE getValue(self)

\* The argument the description callback is called with, null without a call.
getValueDescription(self) ==
  IF ~isValid(self) \/ self._describeValueCallback = "null"
  THEN Null
  ELSE getValue(self)

\* Math.ceil of a fixed-point number.
Ceil(i) ==
  IF i % Scale = 0 THEN i ELSE IF i > 0 THEN Trunc(i) + Scale ELSE Trunc(i)

-----------------------------------------------------------------------------
(* Construction                                                            *)

NoCall ==
  [op |-> "new", arg |-> Null, tries |-> 0, pre |-> Null, ret |-> Null,
   calls |-> 0, run |-> Null, key |-> "", set |-> <<>>]

\* new NumberField(name, spec): spec.options is the bag, spec.value the
\* initial value and spec.validateValue the custom rule of the base Field.
\* Each default is taken with ||, so a falsy option (0, false) gets it too:
\* options.rotate || true is true whatever the option.
constructor(bag, value, callback) ==
  /\ _validateValueCallback = callback
  /\ _integer = (bag.integer = "true")
  /\ _step = OrDefault(bag.step, N(Scale))
  /\ _min = OrDefault(bag.min, Null)
  /\ _max = OrDefault(bag.max, Null)
  /\ _rotate = ((bag.rotate = "true" \/ TRUE) /\ _min # Null /\ _max # Null)
  /\ _describeValueCallback = (IF bag.describeValue = "fn" THEN "fn" ELSE "null")
  /\ _value = value
  /\ _valid = (validateValue(
                 [_validateValueCallback |-> callback, _integer |-> _integer,
                  _min |-> _min, _max |-> _max], value) = Valid)
  /\ options = <<bag>>
  /\ last = NoCall

-----------------------------------------------------------------------------
(* Operations                                                              *)

\* A call of op with argument arg on a field whose value is _value.
Call(op, arg) == [NoCall EXCEPT !.op = op, !.arg = arg, !.pre = _value]

\* A call of a setter: nothing of it is kept but that it happened.
Set(op) == [NoCall EXCEPT !.op = op]

InRange(x, limit) ==
  IsNumber(x) => (x.n >= -Below * Scale /\ x.n <= limit * Scale)

\* Field.revalidateValue, with the field as the setter leaves it.
revalidateValue(self) ==
  _valid' = (validateValue(self, self._value) = Valid)

\* Field.setValue: store the filtered value and revalidate it.
FieldSetValue(value) ==
  /\ _value' = filterValue(This, value)
  /\ revalidateValue([This EXCEPT !._value = filterValue(This, value)])

setInteger(integer) ==
  /\ _integer' = integer
  /\ revalidateValue([This EXCEPT !._integer = integer])
  /\ UNCHANGED <<_value, _validateValueCallback, _step, _min, _max, _rotate,
                 _describeValueCallback>>
  /\ options' = <<>>
  /\ last' = Set("set")

setStep(step) ==
  /\ _step' = step
  /\ UNCHANGED <<_value, _valid, _validateValueCallback, _integer, _min, _max,
                 _rotate, _describeValueCallback>>
  /\ options' = <<>>
  /\ last' = Set("set")

setMin(min) ==
  /\ _min' = min
  /\ revalidateValue([This EXCEPT !._min = min])
  /\ UNCHANGED <<_value, _validateValueCallback, _integer, _step, _max, _rotate,
                 _describeValueCallback>>
  /\ options' = <<>>
  /\ last' = Set("set")

setMax(max) ==
  /\ _max' = max
  /\ revalidateValue([This EXCEPT !._max = max])
  /\ UNCHANGED <<_value, _validateValueCallback, _integer, _step, _min, _rotate,
                 _describeValueCallback>>
  /\ options' = <<>>
  /\ last' = Set("set")

setRotate(rotate) ==
  /\ _rotate' = (rotate /\ _min # Null /\ _max # Null)
  /\ UNCHANGED <<_value, _valid, _validateValueCallback, _integer, _step, _min,
                 _max, _describeValueCallback>>
  /\ options' = <<>>
  /\ last' = Set("set")

\* The view reports an edit: setValue(value, view).
viewValueDidChange(value) ==
  /\ FieldSetValue(value)
  /\ UNCHANGED <<_validateValueCallback, _integer, _step, _min, _max, _rotate,
                 _describeValueCallback, options>>
  /\ last' = Set("setValue")

\* StepAndSet calling setValue with whatever the loop ended on, null or not.
StepAndSetAlways(op, step, limit) ==
  \E r \in {stepValue(This, step, DefaultMaxTries)} :
  /\ InRange(r.ret, limit)
  /\ FieldSetValue(r.value)
  /\ UNCHANGED <<_validateValueCallback, _integer, _step, _min, _max, _rotate,
                 _describeValueCallback, options>>
  /\ last' = [Call(op, N(step)) EXCEPT
                !.tries = DefaultMaxTries, !.ret = r.ret, !.calls = r.calls,
                !.run = r.value,
                !.set = IF r.ret # Null THEN <<r.ret>> ELSE <<>>]

\* The common body of stepUp and stepDown: value = stepValue(step), then
\* setValue(value) unless it is null.
StepAndSet(op, step, limit) ==
  \E r \in {stepValue(This, step, DefaultMaxTries)} :
  /\ InRange(r.ret, limit)
  /\ IF r.ret # Null
     THEN FieldSetValue(r.ret)
     ELSE UNCHANGED <<_value, _valid>>
  /\ UNCHANGED <<_validateValueCallback, _integer, _step, _min, _max, _rotate,
                 _describeValueCallback, options>>
  /\ last' = [Call(op, N(step)) EXCEPT
                !.tries = DefaultMaxTries, !.ret = r.ret, !.calls = r.calls,
                !.run = r.value,
                !.set = IF r.ret # Null THEN <<r.ret>> ELSE <<>>]

stepUp(limit) == StepAndSet("stepUp", _step.n, limit)

stepDown(limit) == StepAndSet("stepDown", -_step.n, limit)

\* A call of stepValue(step, maxTries) by a client.
StepValue(step, maxTries) ==
  \E r \in {stepValue(This, step, maxTries)} :
  /\ UNCHANGED <<fields, options>>
  /\ last' = [Call("stepValue", N(step)) EXCEPT
                !.tries = maxTries, !.ret = r.ret, !.calls = r.calls,
                !.run = r.value]

\* A call of validateValue(rawValue) by a client.
ValidateValue(rawValue) ==
  /\ UNCHANGED <<fields, options>>
  /\ last' = [Call("validateValue", rawValue) EXCEPT
                !.key = validateValue(This, rawValue)]

\* A call of getValueDescription(); ret is the value the callback got.
GetValueDescription ==
  /\ UNCHANGED <<fields, options>>
  /\ last' = [Call("getValueDescription", Null) EXCEPT
                !.ret = getValueDescription(This)]

\* Random.nextInteger(min, max): a whole number of [min, max].
nextInteger(min, max) == {N(i) : i \in {j \in min .. max : j % Scale = 0}}

\* Random.nextFloat(min, max): a number of [min, max).
nextFloat(min, max) == {N(i) : i \in min .. (max - 1)}

\* The values randomizeValue(random) may return when Field.randomizeValue
\* returned base.
randomizeValue(self, base) ==
  IF base # Null THEN {base}
  ELSE IF getMin(self) # Null /\ getMax(self) # Null
  THEN IF isInteger(self)
       THEN nextInteger(getMin(self).n, Ceil(getMax(self).n) - Scale)
       ELSE nextFloat(getMin(self).n, getMax(self).n)
  ELSE {Null}

\* A call of randomizeValue(random) by a client.
RandomizeValue(base) ==
  \E value \in randomizeValue(This, base) :
    /\ UNCHANGED <<fields, options>>
    /\ last' = [Call("randomizeValue", base) EXCEPT !.ret = value]

-----------------------------------------------------------------------------
(* Spec: the field's life.  Construction, then any calls of the setters,   *)
(* of the view's edit, of stepUp / stepDown and of getValueDescription.    *)

OptionBags ==
  [integer : {"undefined"},
   step : {Undefined},
   min : {Undefined, N(-Scale)},
   max : {Undefined, N(3 * Scale)},
   rotate : {"undefined", "false"},
   describeValue : {"undefined", "fn"}]

Callbacks == {"null"}

RawValues == {NaN} \cup {N(i) : i \in {-1, 0, 1, 3 * Scale}}

MinValues == {Null, N(-Scale), N(0)}

MaxValues == {Null, N(0), N(3 * Scale)}

StepValues == {N(1), N(Scale)}

Init ==
  \E bag \in OptionBags, callback \in Callbacks :
    constructor(bag, N(0), callback)

Next ==
  \/ \E b \in BOOLEAN : setInteger(b)
  \/ \E s \in StepValues : setStep(s)
  \/ \E m \in MinValues : setMin(m)
  \/ \E m \in MaxValues : setMax(m)
  \/ \E b \in BOOLEAN : setRotate(b)
  \/ \E v \in RawValues : viewValueDidChange(v)
  \/ stepUp(Above)
  \/ stepDown(Above)
  \/ \E step \in {-1, Scale} : StepValue(step, 2)
  \/ GetValueDescription

Spec == Init /\ [][Next]_vars

-----------------------------------------------------------------------------
(* SpecCalls: a field in any configuration of bounds, integer mode,        *)
(* rotation and custom rule, and a client's calls of validateValue and of  *)
(* stepValue with its own maxTries.                                        *)

DefaultBag ==
  [integer |-> "undefined", step |-> Undefined, min |-> Undefined,
   max |-> Undefined, rotate |-> "undefined", describeValue |-> "undefined"]

CallsCallbacks == {"null", "rejectAll", "wholeOnly"}

CallsBounds == {Null, N(0), N(3 * Scale)}

CallsValues == {N(i) : i \in {-1, 0, 3 * Scale}}

CallsRawValues == {NaN} \cup {N(i) : i \in (-Scale) .. (3 * Scale + 1)}

CallsSteps == {-Scale, -1, 1, Scale}

CallsTries == {0, 1, 2, 7}

InitCalls ==
  \E callback \in CallsCallbacks : constructor(DefaultBag, N(0), callback)

NextCalls ==
  \/ \E b \in BOOLEAN : setInteger(b)
  \/ \E m \in CallsBounds : setMin(m)
  \/ \E m \in CallsBounds : setMax(m)
  \/ \E b \in BOOLEAN : setRotate(b)
  \/ \E v \in CallsValues : viewValueDidChange(v)
  \/ \E step \in CallsSteps, maxTries \in CallsTries : StepValue(step, maxTries)
  \/ \E v \in CallsRawValues : ValidateValue(v)

SpecCalls == InitCalls /\ [][NextCalls]_vars

-----------------------------------------------------------------------------
(* SpecConstructed: a field configured by its constructor's options alone, *)
(* then edited, stepped and sampled.                                       *)

ConstructedBags ==
  [integer : {"undefined", "true"},
   step : {Undefined, N(Scale)},
   min : {Undefined, N(0), N(Scale)},
   max : {Undefined, N(5 * Scale), N(10 * Scale)},
   rotate : {"undefined", "true", "false"},
   describeValue : {"undefined"}]

ConstructedValues == {N(0), N(9 * Scale)}

\* What Field.randomizeValue may return: null, or a value of its own.
BaseRandomValues == {Null, N(7 * Scale)}

InitConstructed ==
  \E bag \in ConstructedBags : constructor(bag, N(0), "null")

NextConstructed ==
  \/ \E v \in ConstructedValues : viewValueDidChange(v)
  \/ stepUp(AboveConstructed)
  \/ stepDown(AboveConstructed)
  \/ \E step \in {-Scale, Scale} : StepValue(step, DefaultMaxTries)
  \/ \E base \in BaseRandomValues : RandomizeValue(base)

SpecConstructed == InitConstructed /\ [][NextConstructed]_vars

-----------------------------------------------------------------------------
(* Properties                                                              *)

Whole(x) == x.n % Scale = 0

\* minimum <= x < maximum, a null bound bounding nothing.
WithinBounds(x) ==
  /\ IsNumber(x)
  /\ (_min = Null \/ x.n >= _min.n)
  /\ (_max = Null \/ x.n < _max.n)

RangeFailures == {"numberTooSmall", "numberTooLarge"}

\* The options bag of a field still configured as constructed.
Constructed == Len(options) = 1

Bag == options[1]

\* C1, as stated: validateValue(v) of a finite number v fails with
\* numberTooSmall whenever v < minimum, with numberTooLarge whenever
\* v >= maximum, and with neither when minimum <= v < maximum.
C1_BoundsOfRawValue ==
  (last.op = "validateValue" /\ IsNumber(last.arg)) =>
    /\ (_min # Null /\ last.arg.n < _min.n) => last.key = "numberTooSmall"
    /\ (_max # Null /\ last.arg.n >= _max.n) => last.key = "numberTooLarge"
    /\ WithinBounds(last.arg) => last.key \notin RangeFailures

\* C1, amended: the bounds are compared with the filtered value f (v
\* truncated toward zero in integer mode, v itself otherwise):
\* numberTooSmall whenever f < minimum, numberTooLarge whenever f >= maximum
\* and not f < minimum, neither when minimum <= f < maximum.
C1_BoundsOfFilteredValue ==
  (last.op = "validateValue" /\ IsNumber(last.arg)) =>
    LET f == filterValue(This, last.arg) IN
    /\ (_min # Null /\ f.n < _min.n) => last.key = "numberTooSmall"
    /\ (_max # Null /\ f.n >= _max.n /\ ~(_min # Null /\ f.n < _min.n))
         => last.key = "numberTooLarge"
    /\ WithinBounds(f) => last.key \notin RangeFailures

\* C1's case: the maximum itself is validated and fails as too large, and
\* the value just below it passes.
C1_Witness ==
  /\ last.op = "validateValue"
  /\ _max # Null /\ _min # Null /\ _min.n < _max.n
  /\ last.arg = _max
  /\ last.key = "numberTooLarge"
  /\ validateValue(This, N(_max.n - 1)) \notin RangeFailures

\* C2: rotation is enabled only while both bounds are set.
C2_RotateOnlyWithBounds ==
  isRotate(This) => (getMin(This) # Null /\ getMax(This) # Null)

\* C3: a field constructed with min 0, max 10, step 1, rotate true steps up
\* from 9 to 0 and down from 0 to 9.
C3_RotationExample ==
  (/\ Constructed
   /\ Bag.min = N(0) /\ Bag.max = N(10 * Scale)
   /\ Bag.step = N(Scale) /\ Bag.rotate = "true") =>
    /\ (last.op = "stepUp" /\ last.pre = N(9 * Scale)) =>
         (last.ret = N(0) /\ _value = N(0))
    /\ (last.op = "stepDown" /\ last.pre = N(0)) =>
         (last.ret = N(9 * Scale) /\ _value = N(9 * Scale))

\* C4: a field constructed with rotate false, min 0, max 10 and holding 0
\* returns null from stepValue with a negative step, without validating
\* any candidate.
C4_BoundaryExample ==
  (/\ Constructed
   /\ Bag.min = N(0) /\ Bag.max = N(10 * Scale) /\ Bag.rotate = "false"
   /\ last.op = "stepValue" /\ last.arg.n < 0 /\ last.pre = N(0)) =>
    (last.ret = Null /\ last.calls = 0)

\* C5, as stated: when the custom rule rejects every value, stepValue(step,
\* maxTries) returns null after exactly maxTries validations.
C5_ExactlyMaxTries ==
  (last.op = "stepValue" /\ _validateValueCallback = "rejectAll") =>
    (last.ret = Null /\ last.calls = last.tries)

\* The loop stopped on its boundary guard: rotation off and the running
\* value on the minimum going down, or on the maximum going up.
StoppedAtLimit ==
  /\ ~_rotate
  /\ \/ last.arg.n < 0 /\ ~StrictNotEqual(last.run, _min)
     \/ last.arg.n > 0 /\ ~StrictNotEqual(last.run, _max)

\* C5, amended: when no candidate validates, stepValue(step, maxTries)
\* returns null after at most maxTries validations, and after exactly
\* maxTries unless the boundary guard stopped the loop earlier; it does
\* return null when the custom rule rejects every value.
C5_AtMostMaxTries ==
  /\ (last.op = "stepValue" /\ _validateValueCallback = "rejectAll") =>
       last.ret = Null
  /\ (last.op = "stepValue" /\ last.ret = Null) =>
       /\ last.calls <= last.tries
       /\ last.calls < last.tries => StoppedAtLimit
       /\ _rotate => last.calls = last.tries

\* C5's case: every value rejected, and all of several tries used.
C5_Witness ==
  /\ last.op = "stepValue"
  /\ _validateValueCallback = "rejectAll"
  /\ last.tries > 2
  /\ last.calls = last.tries
  /\ last.ret = Null

\* C6: stepUp and stepDown call setValue once, with the value stepValue
\* returned for +step resp. -step, when that value is not null, and
\* otherwise change nothing; they never touch the configuration, and
\* stepValue changes no field at all.
C6_StepCommitsOrLeaves ==
  [][/\ last'.op \in {"stepUp", "stepDown"} =>
          \A value \in {stepValue(This,
                            IF last'.op = "stepUp" THEN _step.n ELSE -_step.n,
                            DefaultMaxTries).ret} :
             /\ last'.ret = value
             /\ UNCHANGED <<_validateValueCallback, _integer, _step, _min,
                            _max, _rotate, _describeValueCallback>>
             /\ IF value = Null
                THEN UNCHANGED <<_value, _valid>> /\ last'.set = <<>>
                ELSE /\ last'.set = <<value>>
                     /\ _value' = filterValue(This, value)
     /\ last'.op = "stepValue" => UNCHANGED fields]_vars

\* C6's cases: a step that found nothing after validating candidates, and
\* (before it, in the same configuration) a value the field holds.
C6_Witness ==
  /\ last.op \in {"stepUp", "stepDown"}
  /\ last.ret = Null
  /\ last.calls > 0
  /\ _value = last.pre
  /\ IsNumber(_value)

\* The value is valid: validateValue(getValue()) is true.
ValueIsValid == validateValue(This, getValue(This)) = Valid

\* C9: getValueDescription() returns null whenever the current value is
\* invalid, a callback configured or not; the callback is called only with
\* a valid current value, and with that value.
C9_NoDescriptionOfInvalidValue ==
  /\ ~ValueIsValid => getValueDescription(This) = Null
  /\ last.op = "getValueDescription" =>
       /\ ~ValueIsValid => last.ret = Null
       /\ last.ret # Null =>
            (ValueIsValid /\ last.ret = _value /\ _describeValueCallback = "fn")

\* C9's case: a callback is configured, the value has become invalid, and
\* getValueDescription was called.
C9_Witness ==
  /\ last.op = "getValueDescription"
  /\ _describeValueCallback = "fn"
  /\ IsNumber(_value)
  /\ ~ValueIsValid
  /\ last.ret = Null

\* C10's premises: rotation on, whole bounds minimum < maximum, a nonzero
\* step no longer than the range, no custom rule, and a step taken from a
\* value within the bounds.
C10_Premises ==
  /\ last.op \in {"stepUp", "stepDown", "stepValue"}
  /\ _rotate
  /\ IsNumber(_min) /\ IsNumber(_max) /\ Whole(_min) /\ Whole(_max)
  /\ _min.n < _max.n
  /\ last.arg.n # 0
  /\ last.arg.n <= _max.n - _min.n /\ -last.arg.n <= _max.n - _min.n
  /\ _validateValueCallback = "null"
  /\ WithinBounds(last.pre)

C10_Conclusion ==
  /\ last.ret # Null
  /\ WithinBounds(last.ret)
  /\ last.calls <= 2
  /\ last.calls = 2 => last.pre.n + last.arg.n = _max.n
  /\ last.op \in {"stepUp", "stepDown"} => WithinBounds(_value)

\* C10, as stated: under the premises stepValue returns a value within the
\* bounds after at most 2 iterations, 2 only when value + step is the
\* maximum, and stepUp / stepDown leave the stored value within the bounds.
C10_RotationStaysInRange == C10_Premises => C10_Conclusion

\* C10, amended: the same, provided integer mode is off or the value and
\* the step are whole numbers.
C10_RotationStaysInRangeWhole ==
  (C10_Premises /\ (_integer => (Whole(last.pre) /\ Whole(last.arg)))) =>
    C10_Conclusion

\* C10's case: stepping down from the minimum wraps to maximum + step.
C10_Witness ==
  /\ C10_Premises
  /\ last.op = "stepDown"
  /\ last.pre = _min
  /\ last.ret = N(_max.n + last.arg.n)
  /\ _value = last.ret
  /\ last.calls = 1

\* C7: after construction each getter returns the supplied option, or its
\* default when the option is not supplied: min and max null, step 1,
\* integer false, rotate true; and isRotate() is the rotate option and
\* both bounds set.
C7_OptionsAsSupplied ==
  Constructed =>
    /\ getMin(This) = (IF Bag.min = Undefined THEN Null ELSE Bag.min)
    /\ getMax(This) = (IF Bag.max = Undefined THEN Null ELSE Bag.max)
    /\ getStep(This) = (IF Bag.step = Undefined THEN N(Scale) ELSE Bag.step)
    /\ isInteger(This) = (Bag.integer = "true")
    /\ isRotate(This) =
         (/\ Bag.rotate \in {"undefined", "true"}
          /\ getMin(This) # Null /\ getMax(This) # Null)

\* C8: a field constructed with min 0, max 5, integer true returns one of
\* 0, 1, 2, 3, 4 from randomizeValue when the base Field yields no value.
C8_RandomExample ==
  (/\ Constructed
   /\ Bag.min = N(0) /\ Bag.max = N(5 * Scale) /\ Bag.integer = "true"
   /\ last.op = "randomizeValue" /\ last.arg = Null) =>
    last.ret \in {N(i * Scale) : i \in 0 .. 4}

====
